---- MODULE Spec2Model ----
(***************************************************************************)
(* prop-payment-data (src/src/main.rs): the per-block payment analysis     *)
(* (extract_transfers, get_block_proposer_payment_data,                     *)
(* process_input_entry) and the resumable batch pipeline of the "file"     *)
(* command of main.                                                        *)
(***************************************************************************)
EXTENDS Integers, Sequences, FiniteSets, TLC

VARIABLES
    overflow_checks,   \* build profile: TRUE = arithmetic overflow panics, FALSE = it wraps
    rpc_parallel,      \* cli.rpc_parallel
    input_file,        \* rows of the input CSV file (never written)
    disk,              \* the output CSV file as persisted: NoFile or its rows
    run,               \* number of the current invocation of the program
    pc,                \* position of main
    processed_entries, \* main: rows read from the output file at startup
    processed_set,     \* main: slots of processed_entries
    input,             \* main: the work queue
    wbuf,              \* csv::Writer `output`: rows serialized and not yet written
    chunk_start,       \* main: number of work-queue items of the chunks already taken
    tasks,             \* main: the spawned tasks of the current chunk
    processed,         \* main: results collected from the current chunk
    warnings,          \* slots for which "Error: ..." was printed in this run
    startup,           \* history: the output file as it was when this run started
    launched,          \* history: slots for which a task was spawned in this run
    appended,          \* history: per finished chunk, the rows flushed for it in this run
    call               \* a function called on its own: its arguments and its result

vars == << overflow_checks, rpc_parallel, input_file, disk, run, pc,
           processed_entries, processed_set, input, wbuf, chunk_start, tasks,
           processed, warnings, startup, launched, appended, call >>

(***************************************************************************)
(* Bounds of the model.                                                    *)
(***************************************************************************)
MaxAddr == 1        \* addresses are 0..MaxAddr
MaxTraces == 2      \* longest trace list a block returns
MaxTxs == 2         \* most transactions in a block
MaxInput == 3       \* most rows in the input file
MaxPar == 2         \* largest rpc_parallel
MaxRuns == 2        \* invocations of the program in a behaviour
WordBits == 16      \* width of usize and u64 in the model (64 in the build)

ZeroAddress == 0    \* Address::default()

\* Option<T>: None, Some(x)
None == << >>
Some(x) == << x >>
Unwrap(o) == o[1]

\* a function called on its own, before it returns, and no such call
Calling(fn, args) == [fn |-> fn, args |-> args, result |-> None]
NoCall == [fn |-> "none"]

\* the output file: absent, or present with its rows
NoFile == << >>
File(rows) == << rows >>
Rows(f) == IF f = NoFile THEN << >> ELSE f[1]

\* a CSV row that does not deserialize
BadRow == [malformed |-> TRUE]
IsBadRow(row) == "malformed" \in DOMAIN row

Addrs == 0..MaxAddr
Values == {0, 5}
Balances == {0, 3, 8}
Hashes == 1..MaxTxs

SeqsUpTo(S, n) == UNION {[1..k -> S] : k \in 0..n}

(***************************************************************************)
(* extract_transfers                                                       *)
(***************************************************************************)
\* IsTransfer without the test of line 82
IsTransfer_ZeroValue(trace) ==
    /\ trace.action = "call"
    /\ trace.call_type = "call"
    /\ trace.error = None
    /\ trace.transaction_hash # None

\* the pattern of lines 67-80 and the test of line 82
IsTransfer(trace) ==
    /\ trace.action = "call"
    /\ trace.call_type = "call"
    /\ trace.error = None
    /\ trace.transaction_hash # None
    /\ trace.value # 0

TransferData(trace) ==
    [block_number |-> trace.block_number, tx_hash |-> Unwrap(trace.transaction_hash),
     from |-> trace.from, to |-> trace.to, value |-> trace.value]

RECURSIVE extract_transfers(_)
extract_transfers(traces) ==
    IF traces = << >> THEN << >>
    ELSE LET trace == Head(traces)
             rest == extract_transfers(Tail(traces))
         IN IF IsTransfer(trace) THEN << TransferData(trace) >> \o rest ELSE rest

\* transfers.retain(|t| t.to == fee_recipient || t.from == fee_recipient)
Touches(t, fee_recipient) == t.to = fee_recipient \/ t.from = fee_recipient

RetainTransfers(transfers, fee_recipient) ==
    SelectSeq(transfers, LAMBDA t : Touches(t, fee_recipient))

\* withdrawals.retain(|w| w.address == fee_recipient), of block.withdrawals.unwrap_or_default()
RetainWithdrawals(withdrawals, fee_recipient) ==
    IF withdrawals = None THEN << >>
    ELSE SelectSeq(Unwrap(withdrawals), LAMBDA w : w.address = fee_recipient)

(***************************************************************************)
(* ProposerPayment and the classification of get_block_proposer_payment_data *)
(***************************************************************************)
LastTxDirect(from, to, value) ==
    [tag |-> "LastTxDirect", from |-> from, to |-> to, value |-> value]
LastTxContract(from, contract, value) ==
    [tag |-> "LastTxContract", from |-> from, contract |-> contract, value |-> value]
Coinbase(a) == [tag |-> "Coinbase", addr |-> a]
Unknown == [tag |-> "Unknown"]

is_last_tx(payment) == payment.tag \in {"LastTxDirect", "LastTxContract"}

UnwrapOrDefault(a) == IF a = None THEN ZeroAddress ELSE Unwrap(a)

Last(s) == s[Len(s)]

\* ClassifyLastTx taking the value of LastTxDirect from the last transfer
ClassifyLastTx_TraceValue(last_tx, transfers, fee_recipient) ==
    IF last_tx.to = Some(fee_recipient)
    THEN LastTxDirect(last_tx.from, Unwrap(last_tx.to),
                      IF transfers # << >> THEN Last(transfers).value ELSE last_tx.value)
    ELSE IF transfers # << >>
         THEN LET last_transfer == Last(transfers)
              IN IF last_transfer.tx_hash = last_tx.hash /\ last_transfer.to = fee_recipient
                 THEN LastTxContract(last_tx.from, UnwrapOrDefault(last_tx.to),
                                     last_transfer.value)
                 ELSE Unknown
         ELSE Unknown

\* lines 164-186
ClassifyLastTx(last_tx, transfers, fee_recipient) ==
    IF last_tx.to = Some(fee_recipient)
    THEN LastTxDirect(last_tx.from, Unwrap(last_tx.to), last_tx.value)
    ELSE IF transfers # << >>
         THEN LET last_transfer == Last(transfers)
              IN IF last_transfer.tx_hash = last_tx.hash /\ last_transfer.to = fee_recipient
                 THEN LastTxContract(last_tx.from, UnwrapOrDefault(last_tx.to),
                                     last_transfer.value)
                 ELSE Unknown
         ELSE Unknown

\* Payment with the test of the last transaction before the test of the coinbase
Payment_TxFirst(block, transfers, fee_recipient) ==
    LET coinbase == UnwrapOrDefault(block.author)
        by_tx == IF block.transactions # << >>
                 THEN ClassifyLastTx(Last(block.transactions), transfers, fee_recipient)
                 ELSE Unknown
    IN IF by_tx # Unknown THEN by_tx
       ELSE IF coinbase = fee_recipient THEN Coinbase(coinbase) ELSE Unknown

Payment(block, transfers, fee_recipient) ==
    LET coinbase == UnwrapOrDefault(block.author)
    IN IF coinbase = fee_recipient
       THEN Coinbase(coinbase)
       ELSE IF block.transactions # << >>
            THEN ClassifyLastTx(Last(block.transactions), transfers, fee_recipient)
            ELSE Unknown

\* balance_after.checked_sub(balance_before).unwrap_or_default()
balance_diff(balance_before, balance_after) ==
    IF balance_after >= balance_before THEN balance_after - balance_before ELSE 0

(***************************************************************************)
(* serialize_u256_to_decimal / deserialize_u256_from_decimal: a U256 is    *)
(* written as its decimal digits and read back from them.                  *)
(***************************************************************************)
RECURSIVE serialize_u256_to_decimal(_)
serialize_u256_to_decimal(value) ==
    IF value < 10 THEN << value >>
    ELSE Append(serialize_u256_to_decimal(value \div 10), value % 10)

RECURSIVE deserialize_u256_from_decimal(_)
deserialize_u256_from_decimal(s) ==
    IF Len(s) = 1 THEN s[1]
    ELSE 10 * deserialize_u256_from_decimal(SubSeq(s, 1, Len(s) - 1)) + s[Len(s)]

\* csv serialize / deserialize of an OutputFileEntry
SerializeOutput(e) ==
    [e EXCEPT !.bid_value = serialize_u256_to_decimal(@),
              !.balance_diff = serialize_u256_to_decimal(@)]

DeserializeOutput(row) ==
    [row EXCEPT !.bid_value = deserialize_u256_from_decimal(@),
                !.balance_diff = deserialize_u256_from_decimal(@)]

\* csv deserialize of a BoostRelayDataEntry
DeserializeInput(row) == [row EXCEPT !.value = deserialize_u256_from_decimal(@)]

(***************************************************************************)
(* `a - b` on usize and u64: panics when overflow checks are compiled in,   *)
(* wraps otherwise.                                                        *)
(***************************************************************************)
\* None stands for the panic "attempt to subtract with overflow"
Sub(a, b, checks) ==
    IF a >= b THEN Some(a - b)
    ELSE IF checks THEN None ELSE Some((a - b) % (2 ^ WordBits))

Count(s, P(_)) == Len(SelectSeq(s, P))

(***************************************************************************)
(* Results of a task: Ok(OutputFileEntry), Err(e), or a panic (JoinError)  *)
(***************************************************************************)
Ok(e) == [kind |-> "Ok", entry |-> e]
Err(msg) == [kind |-> "Err", msg |-> msg]
Panic == [kind |-> "Panic"]
Pending == [kind |-> "Pending"]

\* what an RPC call returns: Ok(val) or an error
RpcOk(val) == [ok |-> TRUE, val |-> val]
RpcError == [ok |-> FALSE]

payment_type(payment) ==
    CASE payment.tag = "LastTxDirect" -> "last_tx_direct"
      [] payment.tag = "LastTxContract" -> "last_tx_contract"
      [] payment.tag = "Coinbase" -> "coinbase"
      [] payment.tag = "Unknown" -> "unknown"

\* the `transfers` field of process_input_entry
transfers_field(data, checks) ==
    IF is_last_tx(data.payment)
    THEN Sub(Len(data.fee_recipient_transfers), 1, checks)
    ELSE Some(Len(data.fee_recipient_transfers))

\* the `transfers_in` field of process_input_entry
transfers_in_field(data, checks) ==
    Sub(Count(data.fee_recipient_transfers, LAMBDA t : t.to = data.fee_recipient),
             IF is_last_tx(data.payment) THEN 1 ELSE 0, checks)

\* the `transfers_out` field of process_input_entry
transfers_out_field(data) ==
    Count(data.fee_recipient_transfers, LAMBDA t : t.from = data.fee_recipient)

\* process_input_entry, once get_block_proposer_payment_data returned Ok(data)
OutputFileEntry(entry, data, checks) ==
    LET tr == transfers_field(data, checks)
        tin == transfers_in_field(data, checks)
    IN IF tr = None \/ tin = None THEN Panic
       ELSE Ok([slot |-> entry.slot,
                block_number |-> data.block_number,
                bid_value |-> data.bid_value,
                balance_diff |-> data.balance_diff,
                payment_type |-> payment_type(data.payment),
                withdrawals |-> Len(data.fee_recipient_withdrawals),
                transfers |-> Unwrap(tr),
                transfers_in |-> Unwrap(tin),
                transfers_out |-> transfers_out_field(data)])

(***************************************************************************)
(* One task: process_input_entry(provider, entry), from one RPC await to   *)
(* the next.                                                               *)
(***************************************************************************)
NewTask(entry) ==
    [entry |-> entry, at |-> "trace_block", transfers |-> << >>,
     withdrawals |-> << >>, coinbase |-> ZeroAddress, payment |-> Unknown,
     balance_before |-> 0,
     before_block |-> 0,   \* history: the block the first get_balance asks for
     data |-> None,   \* history: the BlockProposerPaymentData the result was made from
     res |-> Pending]

\* the task returns: its locals are dropped, its result is left for the join
Finish(t, res) == [NewTask(t.entry) EXCEPT !.at = "done", !.res = res]

\* provider.trace_block(..).await?, extract_transfers, retain
AfterTraceBlock(t, resp) ==
    IF ~resp.ok THEN Finish(t, Err("rpc"))
    ELSE [t EXCEPT !.at = "get_block",
                   !.transfers = RetainTransfers(extract_transfers(resp.val),
                                                 t.entry.proposer_fee_recipient)]

\* provider.get_block_with_txs(..).await?.ok_or_else(..)?, withdrawals, payment,
\* and the evaluation of block_numer - 1u64 for the first get_balance
AfterGetBlock(t, resp, checks) ==
    IF ~resp.ok THEN Finish(t, Err("rpc"))
    ELSE IF resp.val = None THEN Finish(t, Err("block not found"))
    ELSE IF Sub(t.entry.block_number, 1, checks) = None THEN Finish(t, Panic)
    ELSE LET block == Unwrap(resp.val)
         IN [t EXCEPT !.at = "balance_before",
                      !.withdrawals = RetainWithdrawals(block.withdrawals,
                                                        t.entry.proposer_fee_recipient),
                      !.coinbase = UnwrapOrDefault(block.author),
                      !.before_block = Unwrap(Sub(t.entry.block_number, 1, checks)),
                      !.payment = Payment(block, t.transfers,
                                          t.entry.proposer_fee_recipient)]

\* provider.get_balance(fee_recipient, block_numer - 1).await?
AfterBalanceBefore(t, resp) ==
    IF ~resp.ok THEN Finish(t, Err("rpc"))
    ELSE [t EXCEPT !.at = "balance_after", !.balance_before = resp.val]

BlockProposerPaymentData(t, balance_after) ==
    [block_number |-> t.entry.block_number,
     fee_recipient |-> t.entry.proposer_fee_recipient,
     bid_value |-> t.entry.value,
     fee_recipient_transfers |-> t.transfers,
     fee_recipient_withdrawals |-> t.withdrawals,
     payment |-> t.payment,
     balance_diff |-> balance_diff(t.balance_before, balance_after)]

\* provider.get_balance(fee_recipient, block_numer).await?, Ok(BlockProposerPaymentData),
\* and the rest of process_input_entry
AfterBalanceAfter(t, resp, checks) ==
    IF ~resp.ok THEN Finish(t, Err("rpc"))
    ELSE LET data == BlockProposerPaymentData(t, resp.val)
         IN [Finish(t, OutputFileEntry(t.entry, data, checks))
                EXCEPT !.data = Some(data), !.coinbase = t.coinbase,
                       !.before_block = t.before_block]

(***************************************************************************)
(* The remote node of the batch runs: what it holds for the block of each  *)
(* slot, and the files the runs start from.                                *)
(***************************************************************************)
Slots == {100, 101, 102}
BlockOf(slot) == slot - 99
FeeRecipient == MaxAddr

Call(hash, from, to, value, bn) ==
    [action |-> "call", call_type |-> "call", error |-> None,
     transaction_hash |-> Some(hash), from |-> from, to |-> to, value |-> value,
     block_number |-> bn]

Tx(hash, from, to, value) == [hash |-> hash, from |-> from, to |-> to, value |-> value]

\* block 1: the coinbase is the recipient; block 2: the last transaction pays the
\* recipient directly with value 0 and leaves no transfer; any other block: the last
\* transaction calls a contract which pays the recipient
Chain(bn) ==
    LET r == FeeRecipient
        o == ZeroAddress
    IN CASE bn = 1 -> [traces |-> << Call(1, o, r, 5, bn) >>,
                       block |-> [author |-> Some(r), withdrawals |-> None,
                                  transactions |-> << Tx(1, o, Some(o), 5) >>],
                       balance_before |-> 3, balance_after |-> 8]
         [] bn = 2 -> [traces |-> << >>,
                       block |-> [author |-> Some(o), withdrawals |-> None,
                                  transactions |-> << Tx(1, o, Some(r), 0) >>],
                       balance_before |-> 8, balance_after |-> 3]
         [] OTHER  -> [traces |-> << Call(1, r, o, 5, bn), Call(1, o, r, 5, bn) >>,
                       block |-> [author |-> None,
                                  withdrawals |-> Some(<< [address |-> r] >>),
                                  transactions |-> << Tx(1, o, Some(o), 0) >>],
                       balance_before |-> 3, balance_after |-> 3]

\* the input file's row of a slot (value in its decimal wire form)
InputRow(slot) ==
    [slot |-> slot, proposer_fee_recipient |-> FeeRecipient, value |-> << 1, 2 >>,
     block_number |-> BlockOf(slot)]

InputFiles == SeqsUpTo({InputRow(s) : s \in Slots} \cup {BadRow}, MaxInput)

\* a row an earlier run left in the output file
PriorRow(slot) ==
    [slot |-> slot, block_number |-> BlockOf(slot), bid_value |-> << 1, 2 >>,
     balance_diff |-> << 0 >>, payment_type |-> "unknown", withdrawals |-> 0,
     transfers |-> 0, transfers_in |-> 0, transfers_out |-> 0]

StartFiles ==
    { NoFile,
      File(<< PriorRow(101) >>),
      File(<< PriorRow(102), PriorRow(100) >>),
      File(<< PriorRow(101), BadRow >>) }

(***************************************************************************)
(* main, Command::File                                                     *)
(***************************************************************************)
Map(f(_), s) == [i \in 1..Len(s) |-> f(s[i])]

SlotsOf(rows) == {rows[i].slot : i \in 1..Len(rows)}

\* FilterInput with `break` in place of `continue`
RECURSIVE FilterInput_Break(_, _)
FilterInput_Break(rows, set) ==
    IF rows = << >> THEN << >>
    ELSE LET entry == DeserializeInput(Head(rows))
         IN IF entry.slot \in set THEN << >>
            ELSE << entry >> \o FilterInput_Break(Tail(rows), set)

\* FilterInput without the test of processed_set
FilterInput_NoSkip(rows, set) == Map(DeserializeInput, rows)

\* the loop of lines 329-335 over the deserialized input rows
RECURSIVE FilterInput(_, _)
FilterInput(rows, set) ==
    IF rows = << >> THEN << >>
    ELSE LET entry == DeserializeInput(Head(rows))
             rest == FilterInput(Tail(rows), set)
         IN IF entry.slot \in set THEN rest ELSE << entry >> \o rest

\* processed.sort_by_key(|e| e.slot): a stable sort
RECURSIVE InsertBySlot(_, _)
InsertBySlot(sorted, e) ==
    IF sorted = << >> THEN << e >>
    ELSE IF Last(sorted).slot <= e.slot THEN Append(sorted, e)
    ELSE Append(InsertBySlot(SubSeq(sorted, 1, Len(sorted) - 1), e), Last(sorted))

\* the sort left out
sort_by_key_Unsorted(s) == s

RECURSIVE sort_by_key(_)
sort_by_key(s) ==
    IF s = << >> THEN << >>
    ELSE InsertBySlot(sort_by_key(SubSeq(s, 1, Len(s) - 1)), Last(s))

\* Chunk taking one item more than the chunk size
Chunk_OneMore(queue, start, par) ==
    SubSeq(queue, start + 1,
           IF start + par + 1 <= Len(queue) THEN start + par + 1 ELSE Len(queue))

\* input.chunks(cli.rpc_parallel): the chunk that starts after `start` items
Chunk(queue, start, par) ==
    SubSeq(queue, start + 1, IF start + par <= Len(queue) THEN start + par ELSE Len(queue))

HasBadRow(rows) == \E i \in 1..Len(rows) : IsBadRow(rows[i])

Init ==
    /\ overflow_checks \in BOOLEAN
    /\ rpc_parallel \in 1..MaxPar
    /\ input_file \in InputFiles
    /\ disk \in StartFiles
    /\ run = 1
    /\ pc = "read_output"
    /\ processed_entries = << >>
    /\ processed_set = {}
    /\ input = << >>
    /\ wbuf = << >>
    /\ chunk_start = 0
    /\ tasks = << >>
    /\ processed = << >>
    /\ warnings = << >>
    /\ startup = disk
    /\ launched = << >>
    /\ appended = << >>
    /\ call = NoCall

\* what no step of main changes
config == << overflow_checks, rpc_parallel, input_file, call >>
history == << startup, launched, appended >>

\* a fatal error: main returns Err, `output` (if open) is dropped, which writes
\* what it still buffers
Abort(rows) ==
    /\ pc' = "aborted"
    /\ disk' = IF rows = << >> THEN disk ELSE File(Rows(disk) \o rows)
    /\ wbuf' = << >>
    /\ tasks' = << >>

\* lines 307-323
ReadOutput ==
    /\ pc = "read_output"
    /\ IF HasBadRow(Rows(disk))
       THEN /\ Abort(<< >>)
            /\ UNCHANGED << processed_entries, processed_set >>
       ELSE /\ processed_entries' = Map(DeserializeOutput, Rows(disk))
            /\ processed_set' = SlotsOf(Rows(disk))
            /\ pc' = "read_input"
            /\ UNCHANGED << disk, wbuf, tasks >>
    /\ UNCHANGED << config, run, input, chunk_start, processed, warnings, history >>

\* lines 325-337
ReadInput ==
    /\ pc = "read_input"
    /\ IF HasBadRow(input_file)
       THEN /\ Abort(<< >>)
            /\ UNCHANGED input
       ELSE /\ input' = FilterInput(input_file, processed_set)
            /\ pc' = "open"
            /\ UNCHANGED << disk, wbuf, tasks >>
    /\ UNCHANGED << config, run, processed_entries, processed_set, chunk_start,
                    processed, warnings, history >>

FirstRows(rows, k) == SubSeq(rows, 1, k)
RestRows(rows, k) == SubSeq(rows, k + 1, Len(rows))

\* line 339: csv::Writer::from_path creates the file, truncating an existing one
OpenOutput ==
    /\ pc = "open"
    /\ disk' = File(<< >>)
    /\ pc' = "replay"
    /\ UNCHANGED << config, run, processed_entries, processed_set, input, wbuf,
                    chunk_start, tasks, processed, warnings, history >>

\* lines 340-342: the writer buffers the rows, and writes the rows it buffers
\* whenever its buffer is full
Replay ==
    /\ pc = "replay"
    /\ \E k \in 0..Len(processed_entries) :
          LET rows == wbuf \o Map(SerializeOutput, processed_entries)
          IN /\ disk' = File(Rows(disk) \o FirstRows(rows, k))
             /\ wbuf' = RestRows(rows, k)
    /\ pc' = "replay_flush"
    /\ UNCHANGED << config, run, processed_entries, processed_set, input,
                    chunk_start, tasks, processed, warnings, history >>

\* ReplayFlush without the flush
ReplayFlush_NoFlush ==
    /\ pc = "replay_flush"
    /\ pc' = "chunk"
    /\ UNCHANGED << config, disk, wbuf, run, processed_entries, processed_set, input,
                    chunk_start, tasks, processed, warnings, history >>

\* line 343
ReplayFlush ==
    /\ pc = "replay_flush"
    /\ disk' = File(Rows(disk) \o wbuf)
    /\ wbuf' = << >>
    /\ pc' = "chunk"
    /\ UNCHANGED << config, run, processed_entries, processed_set, input,
                    chunk_start, tasks, processed, warnings, history >>

\* line 354: the next chunk, or the end of the loop (lines 385-388)
NextChunk ==
    /\ pc = "chunk"
    /\ pc' = IF chunk_start < Len(input) THEN "spawn" ELSE "done"
    /\ tasks' = << >>
    /\ processed' = << >>
    /\ UNCHANGED << config, disk, run, processed_entries, processed_set, input, wbuf,
                    chunk_start, warnings, history >>

\* lines 356-366: one tokio::spawn
Spawn ==
    /\ pc = "spawn"
    /\ LET chunk == Chunk(input, chunk_start, rpc_parallel)
           entry == chunk[Len(tasks) + 1]
       IN /\ tasks' = Append(tasks, NewTask(entry))
          /\ launched' = Append(launched, entry.slot)
          /\ pc' = IF Len(tasks) + 1 = Len(chunk) THEN "join" ELSE "spawn"
    /\ UNCHANGED << config, disk, run, processed_entries, processed_set, input, wbuf,
                    chunk_start, processed, warnings, startup, appended >>

TaskStep(i, t) ==
    /\ tasks' = [tasks EXCEPT ![i] = t]
    /\ UNCHANGED << config, disk, run, pc, processed_entries, processed_set, input,
                    wbuf, chunk_start, processed, warnings, history >>

\* what the node answers: the value it holds, or an error
Answers(val) == {RpcOk(val), RpcError}

\* line 140-142 in task i
TaskTraceBlock(i) ==
    /\ tasks[i].at = "trace_block"
    /\ \E resp \in Answers(Chain(tasks[i].entry.block_number).traces) :
          TaskStep(i, AfterTraceBlock(tasks[i], resp))

\* lines 149-152 in task i
TaskGetBlock(i) ==
    /\ tasks[i].at = "get_block"
    /\ \E resp \in Answers(Some(Chain(tasks[i].entry.block_number).block))
                      \cup {RpcOk(None)} :
          TaskStep(i, AfterGetBlock(tasks[i], resp, overflow_checks))

\* lines 195-197 in task i
TaskBalanceBefore(i) ==
    /\ tasks[i].at = "balance_before"
    /\ \E resp \in Answers(Chain(tasks[i].entry.block_number).balance_before) :
          TaskStep(i, AfterBalanceBefore(tasks[i], resp))

\* lines 198-200 in task i
TaskBalanceAfter(i) ==
    /\ tasks[i].at = "balance_after"
    /\ \E resp \in Answers(Chain(tasks[i].entry.block_number).balance_after) :
          TaskStep(i, AfterBalanceAfter(tasks[i], resp, overflow_checks))

\* Collect with `res??`: an Err result ends the run as a JoinError does
RECURSIVE Collect_AbortOnErr(_, _, _)
Collect_AbortOnErr(results, oks, errs) ==
    IF results = << >> THEN [panic |-> FALSE, oks |-> oks, errs |-> errs]
    ELSE LET t == Head(results)
         IN IF t.res.kind # "Ok" THEN [panic |-> TRUE, oks |-> oks, errs |-> errs]
            ELSE Collect_AbortOnErr(Tail(results), Append(oks, t.res.entry), errs)

\* Collect pushing a row of defaults for an Err result
RECURSIVE Collect_PushErr(_, _, _)
Collect_PushErr(results, oks, errs) ==
    IF results = << >> THEN [panic |-> FALSE, oks |-> oks, errs |-> errs]
    ELSE LET t == Head(results)
             blank == [slot |-> t.entry.slot, block_number |-> 0, bid_value |-> 0,
                       balance_diff |-> 0, payment_type |-> "", withdrawals |-> 0,
                       transfers |-> 0, transfers_in |-> 0, transfers_out |-> 0]
         IN IF t.res.kind = "Panic" THEN [panic |-> TRUE, oks |-> oks, errs |-> errs]
            ELSE IF t.res.kind = "Ok"
                 THEN Collect_PushErr(Tail(results), Append(oks, t.res.entry), errs)
                 ELSE Collect_PushErr(Tail(results), Append(oks, blank),
                                      Append(errs, t.entry.slot))

\* the loop of lines 368-377 over the results, up to the first JoinError
RECURSIVE Collect(_, _, _)
Collect(results, oks, errs) ==
    IF results = << >> THEN [panic |-> FALSE, oks |-> oks, errs |-> errs]
    ELSE LET t == Head(results)
         IN IF t.res.kind = "Panic" THEN [panic |-> TRUE, oks |-> oks, errs |-> errs]
            ELSE IF t.res.kind = "Ok"
                 THEN Collect(Tail(results), Append(oks, t.res.entry), errs)
                 ELSE Collect(Tail(results), oks, Append(errs, t.entry.slot))

\* JoinAll without waiting for the tasks
JoinAll_NoWait ==
    /\ pc = "join"
    /\ LET c == Collect(tasks, << >>, << >>)
       IN /\ warnings' = warnings \o c.errs
          /\ IF c.panic
             THEN /\ Abort(wbuf)
                  /\ UNCHANGED processed
             ELSE /\ processed' = sort_by_key(c.oks)
                  /\ pc' = "write_chunk"
                  /\ UNCHANGED << disk, wbuf, tasks >>
    /\ UNCHANGED << config, run, processed_entries, processed_set, input,
                    chunk_start, history >>

\* lines 368-379: join_all, the results, the sort
JoinAll ==
    /\ pc = "join"
    /\ \A i \in 1..Len(tasks) : tasks[i].at = "done"
    /\ LET c == Collect(tasks, << >>, << >>)
       IN /\ warnings' = warnings \o c.errs
          /\ IF c.panic
             THEN /\ Abort(wbuf)
                  /\ UNCHANGED processed
             ELSE /\ processed' = sort_by_key(c.oks)
                  /\ pc' = "write_chunk"
                  /\ UNCHANGED << disk, wbuf, tasks >>
    /\ UNCHANGED << config, run, processed_entries, processed_set, input,
                    chunk_start, history >>

\* lines 380-382
WriteChunk ==
    /\ pc = "write_chunk"
    /\ \E k \in 0..Len(processed) :
          LET rows == wbuf \o Map(SerializeOutput, processed)
          IN /\ disk' = File(Rows(disk) \o FirstRows(rows, k))
             /\ wbuf' = RestRows(rows, k)
    /\ pc' = "flush_chunk"
    /\ UNCHANGED << config, run, processed_entries, processed_set, input,
                    chunk_start, tasks, processed, warnings, history >>

\* FlushChunk without the flush
FlushChunk_NoFlush ==
    /\ pc = "flush_chunk"
    /\ appended' = Append(appended, Map(SerializeOutput, processed))
    /\ chunk_start' = chunk_start + rpc_parallel
    /\ pc' = "chunk"
    /\ UNCHANGED << config, disk, wbuf, run, processed_entries, processed_set, input,
                    tasks, processed, warnings, startup, launched >>

\* line 383, and the step of the chunk loop
FlushChunk ==
    /\ pc = "flush_chunk"
    /\ disk' = File(Rows(disk) \o wbuf)
    /\ wbuf' = << >>
    /\ appended' = Append(appended, Map(SerializeOutput, processed))
    /\ chunk_start' = chunk_start + rpc_parallel
    /\ pc' = "chunk"
    /\ UNCHANGED << config, run, processed_entries, processed_set, input, tasks,
                    processed, warnings, startup, launched >>

Running == pc \notin {"done", "aborted", "crashed"}

\* the process is killed: what the writer buffers is lost, the tasks are gone
Crash ==
    /\ Running
    /\ pc' = "crashed"
    /\ wbuf' = << >>
    /\ tasks' = << >>
    /\ UNCHANGED << config, disk, run, processed_entries, processed_set, input,
                    chunk_start, processed, warnings, history >>

\* an I/O error of from_path (line 339), serialize (lines 341, 381) or flush
\* (lines 343, 383): main returns the error and the writer, if open, is dropped
IoError ==
    /\ pc \in {"open", "replay", "replay_flush", "write_chunk", "flush_chunk"}
    /\ \E k \in 0..Len(wbuf) : Abort(FirstRows(wbuf, k))
    /\ UNCHANGED << config, run, processed_entries, processed_set, input,
                    chunk_start, processed, warnings, history >>

\* the program is invoked again on the same input file and output file
Invoke ==
    /\ ~Running
    /\ run < MaxRuns
    /\ run' = run + 1
    /\ pc' = "read_output"
    /\ processed_entries' = << >>
    /\ processed_set' = {}
    /\ input' = << >>
    /\ wbuf' = << >>
    /\ chunk_start' = 0
    /\ tasks' = << >>
    /\ processed' = << >>
    /\ warnings' = << >>
    /\ startup' = disk
    /\ launched' = << >>
    /\ appended' = << >>
    /\ UNCHANGED << config, disk >>

Step ==
    \/ ReadOutput
    \/ ReadInput
    \/ OpenOutput
    \/ Replay
    \/ ReplayFlush
    \/ NextChunk
    \/ Spawn
    \/ \E i \in 1..Len(tasks) : TaskTraceBlock(i)
    \/ \E i \in 1..Len(tasks) : TaskGetBlock(i)
    \/ \E i \in 1..Len(tasks) : TaskBalanceBefore(i)
    \/ \E i \in 1..Len(tasks) : TaskBalanceAfter(i)
    \/ JoinAll
    \/ WriteChunk
    \/ FlushChunk
    \/ Crash
    \/ IoError

Next == Step \/ Invoke

Spec == Init /\ [][Next]_vars

\* the program is invoked again only after a run that completed
InvokeAfterDone == pc = "done" /\ Invoke

NextRerun == Step \/ InvokeAfterDone

SpecRerun == Init /\ [][NextRerun]_vars

(***************************************************************************)
(* Runs that are left to finish: no kill and no I/O error, and every step  *)
(* that can be taken is eventually taken (the runtime schedules every      *)
(* spawned task, main goes on whenever what it awaits is ready, and the     *)
(* program is invoked again after it ended).                               *)
(***************************************************************************)
NextRetry ==
    \/ ReadOutput
    \/ ReadInput
    \/ OpenOutput
    \/ Replay
    \/ ReplayFlush
    \/ NextChunk
    \/ Spawn
    \/ \E i \in 1..Len(tasks) : TaskTraceBlock(i)
    \/ \E i \in 1..Len(tasks) : TaskGetBlock(i)
    \/ \E i \in 1..Len(tasks) : TaskBalanceBefore(i)
    \/ \E i \in 1..Len(tasks) : TaskBalanceAfter(i)
    \/ JoinAll
    \/ WriteChunk
    \/ FlushChunk
    \/ Invoke

SpecRetry == Init /\ [][NextRetry]_vars /\ WF_vars(NextRetry)

(***************************************************************************)
(* process_input_entry on its own: one entry, and a node that may answer   *)
(* anything within the bounds.                                             *)
(***************************************************************************)
Entries ==
    { [slot |-> 100, proposer_fee_recipient |-> r, value |-> 12, block_number |-> bn] :
        r \in {ZeroAddress, FeeRecipient}, bn \in {0, 1} }

AnyTraces(bn) ==
    SeqsUpTo({ Call(h, from, to, v, bn) :
                 h \in Hashes, from \in Addrs, to \in Addrs, v \in Values },
             MaxTraces)

\* the transactions before the last one
Filler(i) == Tx(i, ZeroAddress, None, 5)

AnyTransactions ==
    {<< >>} \cup
    { [i \in 1..n |-> IF i = n THEN Tx(n, from, to, v) ELSE Filler(i)] :
        n \in 1..MaxTxs, from \in Addrs, to \in {None} \cup {Some(a) : a \in Addrs},
        v \in Values }

AnyBlocks ==
    { [author |-> a, withdrawals |-> w, transactions |-> txs] :
        a \in {None} \cup {Some(x) : x \in Addrs},
        w \in {None, Some([i \in 1..(MaxAddr + 1) |-> [address |-> i - 1]])},
        txs \in AnyTransactions }

AnyBalances == {3, 8}

InitEntry ==
    /\ overflow_checks \in BOOLEAN
    /\ tasks \in {<< NewTask(e) >> : e \in Entries}
    /\ pc = "entry"
    /\ rpc_parallel = 1
    /\ input_file = << >>
    /\ disk = NoFile
    /\ run = 1
    /\ processed_entries = << >>
    /\ processed_set = {}
    /\ input = << >>
    /\ wbuf = << >>
    /\ chunk_start = 0
    /\ processed = << >>
    /\ warnings = << >>
    /\ startup = NoFile
    /\ launched = << >>
    /\ appended = << >>
    /\ call = NoCall

EntryTraceBlock ==
    /\ tasks[1].at = "trace_block"
    /\ \E resp \in {RpcOk(t) : t \in AnyTraces(tasks[1].entry.block_number)}
                      \cup {RpcError} :
          TaskStep(1, AfterTraceBlock(tasks[1], resp))

EntryGetBlock ==
    /\ tasks[1].at = "get_block"
    /\ \E resp \in {RpcOk(Some(b)) : b \in AnyBlocks} \cup {RpcOk(None), RpcError} :
          TaskStep(1, AfterGetBlock(tasks[1], resp, overflow_checks))

EntryBalanceBefore ==
    /\ tasks[1].at = "balance_before"
    /\ \E resp \in {RpcOk(b) : b \in AnyBalances} \cup {RpcError} :
          TaskStep(1, AfterBalanceBefore(tasks[1], resp))

EntryBalanceAfter ==
    /\ tasks[1].at = "balance_after"
    /\ \E resp \in {RpcOk(b) : b \in AnyBalances} \cup {RpcError} :
          TaskStep(1, AfterBalanceAfter(tasks[1], resp, overflow_checks))

NextEntry ==
    \/ EntryTraceBlock
    \/ EntryGetBlock
    \/ EntryBalanceBefore
    \/ EntryBalanceAfter

SpecEntry == InitEntry /\ [][NextEntry]_vars

(***************************************************************************)
(* The classification of lines 159-190 on its own: `payment` as a function *)
(* of the block, of the recipient's transfers and of the recipient.        *)
(***************************************************************************)
\* main is not running: only `call` is in use
NoRun ==
    /\ overflow_checks = TRUE
    /\ rpc_parallel = 1
    /\ input_file = << >>
    /\ disk = NoFile
    /\ run = 1
    /\ pc = "call"
    /\ processed_entries = << >>
    /\ processed_set = {}
    /\ input = << >>
    /\ wbuf = << >>
    /\ chunk_start = 0
    /\ tasks = << >>
    /\ processed = << >>
    /\ warnings = << >>
    /\ startup = NoFile
    /\ launched = << >>
    /\ appended = << >>

main_vars == << overflow_checks, rpc_parallel, input_file, disk, run, pc,
                processed_entries, processed_set, input, wbuf, chunk_start, tasks,
                processed, warnings, startup, launched, appended >>

\* the transfers that lines 143-144 can leave for a recipient
TouchingTransfers(fee_recipient) ==
    { t \in [block_number : {1}, tx_hash : Hashes, from : Addrs, to : Addrs,
             value : Values \ {0}] : Touches(t, fee_recipient) }

\* the transfers before the last one: each pays the recipient from transaction 1
FillerTransfer(fee_recipient) ==
    [block_number |-> 1, tx_hash |-> 1, from |-> ZeroAddress, to |-> fee_recipient,
     value |-> 5]

AnyTransfers(fee_recipient) ==
    {<< >>} \cup
    { [i \in 1..n |-> IF i = n THEN last ELSE FillerTransfer(fee_recipient)] :
        n \in 1..MaxTraces, last \in TouchingTransfers(fee_recipient) }

InitClassify ==
    /\ NoRun
    /\ \E r \in Addrs : \E b \in AnyBlocks : \E trs \in AnyTransfers(r) :
          call = Calling("payment", [block |-> b, transfers |-> trs, fee_recipient |-> r])

\* lines 159-190
ClassifyReturn ==
    /\ call.fn = "payment"
    /\ call.result = None
    /\ call' = [call EXCEPT !.result = Some(Payment(call.args.block, call.args.transfers,
                                                    call.args.fee_recipient))]
    /\ UNCHANGED main_vars

SpecClassify == InitClassify /\ [][ClassifyReturn]_vars

(***************************************************************************)
(* extract_transfers on its own, on traces of every kind.                  *)
(***************************************************************************)
WideTraces ==
    [action : {"call", "create"}, call_type : {"call", "delegatecall"},
     error : {None, Some("Reverted")}, transaction_hash : {None, Some(1)},
     from : {ZeroAddress}, to : {ZeroAddress, FeeRecipient}, value : Values,
     block_number : {1}]

InitExtract ==
    /\ NoRun
    /\ \E traces \in SeqsUpTo(WideTraces, MaxTraces) :
          call = Calling("extract_transfers", [traces |-> traces])

\* lines 64-95
ExtractReturn ==
    /\ call.fn = "extract_transfers"
    /\ call.result = None
    /\ call' = [call EXCEPT !.result = Some(extract_transfers(call.args.traces))]
    /\ UNCHANGED main_vars

SpecExtract == InitExtract /\ [][ExtractReturn]_vars

(***************************************************************************)
(* Properties                                                              *)
(***************************************************************************)
IsPrefix(a, b) == Len(a) <= Len(b) /\ SubSeq(b, 1, Len(a)) = a

RECURSIVE Flatten(_)
Flatten(ss) == IF ss = << >> THEN << >> ELSE Head(ss) \o Flatten(Tail(ss))

Occurs(row, rows) == \E i \in 1..Len(rows) : rows[i] = row

SlotSeq(rows) == [i \in 1..Len(rows) |-> rows[i].slot]

\* main has built the work queue and has not ended abnormally
Filtered ==
    pc \in {"open", "replay", "replay_flush", "chunk", "spawn", "join",
            "write_chunk", "flush_chunk", "done"}

\* main has written the replayed rows and has not ended abnormally
Replayed == pc \in {"chunk", "spawn", "join", "write_chunk", "flush_chunk", "done"}

StartupSlots == SlotsOf(Rows(startup))

\* C1 (as claimed), in the build with overflow checks and in the runs of SpecRerun,
\* where a run follows a completed run: the second run ends with the output file row-for-row equal to the file the
\* first run left, and launches no task for a slot that has a row in that file.
C1_SecondRunIdentical ==
    (run = 2 /\ overflow_checks)
        => /\ \A i \in 1..Len(launched) : launched[i] \notin StartupSlots
           /\ pc = "done" => Rows(disk) = Rows(startup)

\* C1 (amended), in the runs of SpecRerun, where a run follows a completed run:
\* the second run launches no task
\* for a slot that has a row in the file the first run left; when it completes, the
\* rows of that file are the first rows of the output, unchanged and in order, every
\* row after them is the row of a slot that had no row (its task had failed in the
\* first run and succeeded now), and the file is equal to the first run's when no
\* task succeeded in the second run.
C1_SecondRunKeepsRows ==
    run = 2
        => /\ \A i \in 1..Len(launched) : launched[i] \notin StartupSlots
           /\ pc = "done" =>
                /\ IsPrefix(Rows(startup), Rows(disk))
                /\ Rows(disk) = Rows(startup) \o Flatten(appended)
                /\ \A i \in (Len(Rows(startup)) + 1)..Len(Rows(disk)) :
                      /\ Rows(disk)[i].slot \notin StartupSlots
                      /\ \E j \in 1..Len(launched) : launched[j] = Rows(disk)[i].slot
                /\ Flatten(appended) = << >> => Rows(disk) = Rows(startup)

\* a second run after a completed first run found rows to replay and slots to
\* retry, and completed
C1_Witness ==
    /\ run = 2 /\ pc = "done"
    /\ Rows(startup) # << >>
    /\ input # << >>
    /\ Len(Rows(disk)) > Len(Rows(startup))

\* C2: once the work queue is built it is the subsequence, in input-file order, of
\* the input records whose slot has no row in the output file read at startup.
C2_WorkQueue ==
    Filtered =>
        input = SelectSeq(Map(DeserializeInput, input_file),
                          LAMBDA e : ~ \E i \in 1..Len(Rows(startup)) :
                                         Rows(startup)[i].slot = e.slot)

\* Scenario C: input slots [100, 101, 102], output holding slot 101, queue [100, 102]
C2_Witness ==
    /\ pc = "open"
    /\ SlotSeq(input_file) = << 100, 101, 102 >>
    /\ StartupSlots = {101}
    /\ SlotSeq(input) = << 100, 102 >>

\* C3 (as claimed): however a run ends (normally, by a fatal error or by a crash at
\* any step), every row the output file held at startup is still in the persisted
\* output file.
C3_PriorRowsKept ==
    ~Running => \A i \in 1..Len(Rows(startup)) : Occurs(Rows(startup)[i], Rows(disk))

CountIn(rows, row) == Cardinality({i \in 1..Len(rows) : rows[i] = row})

SameRows(a, b) ==
    /\ Len(a) = Len(b)
    /\ \A i \in 1..Len(a) : CountIn(a, a[i]) = CountIn(b, a[i])

Ascending(rows) == \A i, j \in 1..Len(rows) : i < j => rows[i].slot <= rows[j].slot

\* the rows of the tasks that returned Ok, and the slots of those that returned Err
OkRows(ts) == Map(LAMBDA t : t.res.entry, SelectSeq(ts, LAMBDA t : t.res.kind = "Ok"))
ErrSlots(ts) == Map(LAMBDA t : t.entry.slot, SelectSeq(ts, LAMBDA t : t.res.kind = "Err"))

\* the rows of the output file after the rows it held at startup
NewRows == RestRows(Rows(disk), Len(Rows(startup)))

C4_State ==
    /\ \A k \in 1..Len(appended) : \A j \in 1..Len(appended[k]) :
          Occurs(appended[k][j], Rows(disk))
    /\ Filtered => \A i \in 1..Len(input) : input[i].slot \notin StartupSlots

C4_Step ==
    /\ (pc = "flush_chunk" /\ pc' = "chunk") =>
          /\ \A i \in 1..Len(tasks) :
                tasks[i].res.kind = "Ok" =>
                    Occurs(SerializeOutput(tasks[i].res.entry), Rows(disk'))
          /\ Len(appended') = Len(appended) + 1
          /\ SameRows(appended'[Len(appended')], Map(SerializeOutput, OkRows(tasks)))
    /\ run' = run + 1 =>
          \A k \in 1..Len(appended) : \A j \in 1..Len(appended[k]) :
              appended[k][j].slot \in SlotsOf(Rows(startup'))

\* C4: the flush that ends chunk k leaves every successful row of the chunk in the
\* persisted output file; from then on, at every point of the run and after a crash
\* of it, the rows of chunks 1..k are in the file; and the next run starts from a
\* file that holds those slots and keeps every slot of that file out of its queue.
C4_Checkpoint == [](C4_State) /\ [][C4_Step]_vars

\* the run crashed after the flush of a first chunk with a successful row, with
\* chunks left to do
C4_Witness ==
    /\ pc = "crashed"
    /\ Flatten(appended) # << >>
    /\ chunk_start < Len(input)

\* C5: the rows a run has appended are, chunk after chunk in the order of the
\* chunks, the rows of that chunk in ascending slot order, whatever the order of
\* the chunk's items in the input.
C5_ChunkOrder ==
    Replayed =>
        /\ \A k \in 1..Len(appended) :
              /\ Ascending(appended[k])
              /\ SlotsOf(appended[k]) \subseteq
                    SlotsOf(Chunk(input, (k - 1) * rpc_parallel, rpc_parallel))
        /\ IsPrefix(Flatten(appended), NewRows)
        /\ pc # "flush_chunk" => NewRows = Flatten(appended)
        /\ pc = "flush_chunk" =>
              /\ Ascending(processed)
              /\ IsPrefix(NewRows, Flatten(appended) \o Map(SerializeOutput, processed))

\* two chunks were appended, the first from two items listed in descending slot order
C5_Witness ==
    /\ Replayed
    /\ Len(appended) = 2
    /\ Len(appended[1]) = 2 /\ Len(appended[2]) = 1
    /\ input[1].slot > input[2].slot
    /\ NewRows = Flatten(appended)

C6_Step ==
    /\ (pc = "join" /\ pc' \notin {"join", "crashed"}
          /\ \A i \in 1..Len(tasks) : tasks[i].res.kind \in {"Ok", "Err"}) =>
          /\ pc' = "write_chunk"
          /\ warnings' = warnings \o ErrSlots(tasks)
          /\ Ascending(processed')
          /\ SameRows(processed', OkRows(tasks))
    /\ (pc = "flush_chunk" /\ pc' = "chunk") =>
          /\ NewRows' = Flatten(appended) \o Map(SerializeOutput, processed)
          /\ chunk_start' = chunk_start + rpc_parallel

\* C6: when the tasks of a chunk have returned, some of them an error, the join
\* prints one warning per task that returned an error and goes on to write the
\* chunk; the rows appended for the chunk are the rows of the other tasks in
\* ascending slot order, and the loop moves on to the next chunk.
C6_ErrorsIsolated == [][C6_Step]_vars

\* a chunk of two items, one of which failed, was appended and a chunk follows
C6_Witness ==
    /\ pc = "spawn"
    /\ rpc_parallel = 2
    /\ chunk_start = 2
    /\ Len(warnings) = 1
    /\ Len(appended) = 1 /\ Len(appended[1]) = 1

Transformed(t) == t.at = "done" /\ t.data # None

CountTo(data) == Count(data.fee_recipient_transfers, LAMBDA t : t.to = data.fee_recipient)
CountFrom(data) == Count(data.fee_recipient_transfers, LAMBDA t : t.from = data.fee_recipient)

\* C8 (as claimed): for every block classified as a last-tx variant, `transfers`
\* and `transfers_in` are computed without underflow: the task does not panic and
\* neither count exceeds the number of transfers it is taken from.
C8_NoUnderflow ==
    \A i \in 1..Len(tasks) :
        LET t == tasks[i]
            data == Unwrap(t.data)
        IN (Transformed(t) /\ is_last_tx(data.payment)) =>
              /\ t.res.kind = "Ok"
              /\ t.res.entry.transfers <= Len(data.fee_recipient_transfers)
              /\ t.res.entry.transfers_in <= CountTo(data)

\* the transfer that was the payment is in the recipient's transfers: the last
\* transfer for LastTxContract, a transfer with the last transaction's sender,
\* destination and value for LastTxDirect
PaymentIsListed(data) ==
    \/ data.payment.tag = "LastTxContract"
    \/ /\ data.payment.tag = "LastTxDirect"
       /\ \E j \in 1..Len(data.fee_recipient_transfers) :
             LET tr == data.fee_recipient_transfers[j]
             IN tr.from = data.payment.from /\ tr.to = data.payment.to
                /\ tr.value = data.payment.value

\* C9 (as claimed): the row reports, for a last-tx payment, the numbers of
\* recipient-touching and recipient-receiving transfers other than the transfer
\* that was the payment, for Coinbase and Unknown the full numbers, and always the
\* full number of transfers sent by the recipient.
C9_CountingRule ==
    \A i \in 1..Len(tasks) :
        LET t == tasks[i]
            data == Unwrap(t.data)
            paid == IF is_last_tx(data.payment) /\ PaymentIsListed(data) THEN 1 ELSE 0
        IN (Transformed(t) /\ t.res.kind = "Ok") =>
              /\ t.res.entry.transfers = Len(data.fee_recipient_transfers) - paid
              /\ t.res.entry.transfers_in = CountTo(data) - paid
              /\ t.res.entry.transfers_out = CountFrom(data)

\* the payment of a task that has classified its block
PaymentOf(t) == IF t.at = "done" THEN Unwrap(t.data).payment ELSE t.payment

Variants ==
    [tag : {"LastTxDirect"}, from : Addrs, to : Addrs, value : Values]
        \cup [tag : {"LastTxContract"}, from : Addrs, contract : Addrs, value : Values]
        \cup [tag : {"Coinbase"}, addr : Addrs]
        \cup {Unknown}

\* C10: the classification of a block is one of the four variants, it is
\* Coinbase(coinbase) whenever the coinbase is the recipient and only then, and the
\* row of such a block has payment_type "coinbase" and the full transfer counts.
C10_CoinbaseFirst ==
    \A i \in 1..Len(tasks) :
        LET t == tasks[i]
            r == t.entry.proposer_fee_recipient
        IN (t.at \in {"balance_before", "balance_after"} \/ Transformed(t)) =>
              /\ PaymentOf(t) \in Variants
              /\ t.coinbase = r => PaymentOf(t) = Coinbase(t.coinbase)
              /\ t.coinbase # r => PaymentOf(t).tag # "Coinbase"
              /\ (Transformed(t) /\ t.coinbase = r) =>
                    /\ t.res.kind = "Ok"
                    /\ t.res.entry.payment_type = "coinbase"
                    /\ t.res.entry.transfers = Len(Unwrap(t.data).fee_recipient_transfers)
                    /\ t.res.entry.transfers_in = CountTo(Unwrap(t.data))
                    /\ t.res.entry.transfers_out = CountFrom(Unwrap(t.data))

\* a block whose coinbase is the recipient and which holds transfers to and from
\* the recipient was classified and its row made
C10_Witness ==
    /\ pc = "entry"
    /\ Transformed(tasks[1])
    /\ tasks[1].coinbase = tasks[1].entry.proposer_fee_recipient
    /\ tasks[1].res.kind = "Ok"
    /\ tasks[1].res.entry.payment_type = "coinbase"
    /\ tasks[1].res.entry.transfers = 2
    /\ tasks[1].res.entry.transfers_in >= 1
    /\ tasks[1].res.entry.transfers_out >= 1

\* the function called on its own has returned
Returned(fn) == call.fn = fn /\ call.result # None

\* C11: for a block whose coinbase is not the recipient and whose last transaction
\* is sent to the recipient, the classification is LastTxDirect with the sender, the
\* destination and the value of that transaction itself, whatever the recipient's
\* trace transfers are.
C11_LastTxDirect ==
    Returned("payment") =>
        LET block == call.args.block
            r == call.args.fee_recipient
            coinbase == IF block.author = None THEN ZeroAddress ELSE block.author[1]
            n == Len(block.transactions)
        IN (coinbase # r /\ n >= 1 /\ block.transactions[n].to = << r >>) =>
              Unwrap(call.result) =
                  [tag |-> "LastTxDirect", from |-> block.transactions[n].from,
                   to |-> r, value |-> block.transactions[n].value]

\* a last transaction of value 0 to the recipient, with a last transfer of that
\* transaction paying the recipient a positive value, was classified LastTxDirect
\* with value 0
C11_Witness ==
    /\ Returned("payment")
    /\ call.args.block.transactions # << >>
    /\ Last(call.args.block.transactions).to = Some(call.args.fee_recipient)
    /\ Last(call.args.block.transactions).value = 0
    /\ call.args.transfers # << >>
    /\ Last(call.args.transfers).to = call.args.fee_recipient
    /\ Last(call.args.transfers).tx_hash = Last(call.args.block.transactions).hash
    /\ Last(call.args.transfers).value > 0
    /\ Unwrap(call.result).tag = "LastTxDirect"
    /\ Unwrap(call.result).value = 0

\* C12 (as claimed): for a block that is neither rule 1 (coinbase is the recipient)
\* nor rule 2 (last transaction sent to the recipient), the classification is
\* LastTxContract(sender, destination, value of the transfer) when the block has a
\* last transaction with a destination and the last of the recipient's transfers has
\* the hash of that transaction and pays the recipient, and Unknown in every other
\* case: no transaction, a last transaction without destination, no transfer, a last
\* transfer of another transaction or sent by the recipient.
C12_ContractOrUnknown ==
    Returned("payment") =>
        LET block == call.args.block
            r == call.args.fee_recipient
            transfers == call.args.transfers
            coinbase == IF block.author = None THEN ZeroAddress ELSE block.author[1]
            n == Len(block.transactions)
            last_tx == block.transactions[n]
            last_transfer == transfers[Len(transfers)]
            rule1 == coinbase = r
            rule2 == n >= 1 /\ last_tx.to = << r >>
            rule3 == /\ n >= 1
                     /\ last_tx.to # None
                     /\ Len(transfers) >= 1
                     /\ last_transfer.tx_hash = last_tx.hash
                     /\ last_transfer.to = r
        IN (~rule1 /\ ~rule2) =>
              Unwrap(call.result) =
                  IF rule3
                  THEN [tag |-> "LastTxContract", from |-> last_tx.from,
                        contract |-> last_tx.to[1], value |-> last_transfer.value]
                  ELSE [tag |-> "Unknown"]

C13_State ==
    \A i \in 1..Len(tasks) :
        LET t == tasks[i]
        IN /\ (t.at = "done" /\ t.res.kind = "Panic") => t.data # None
           /\ (t.at \in {"balance_before", "balance_after"} \/ Transformed(t)) =>
                 t.before_block = t.entry.block_number - 1
           /\ Transformed(t) => Unwrap(t.data).balance_diff >= 0

C13_Step ==
    \A i \in 1..Len(tasks) :
        (i <= Len(tasks') /\ tasks[i].at = "balance_after" /\ Transformed(tasks'[i])) =>
            \E after \in AnyBalances \cup Balances :
                Unwrap(tasks'[i].data).balance_diff =
                    IF after >= tasks[i].balance_before
                    THEN after - tasks[i].balance_before
                    ELSE 0

\* C13 (as claimed): for every block number N, a task that has its block asks for
\* the balance before at block N - 1 and does not panic on the way to its balance
\* diff; the diff it returns is after - before for the balance the node answered
\* when that is not negative, and 0 otherwise, and is never negative.
C13_BalanceDiff == [](C13_State) /\ [][C13_Step]_vars

\* a plain call that reports no error, has a transaction hash and carries value
PlainValueCall(trace) ==
    /\ trace.action = "call" /\ trace.call_type = "call"
    /\ trace.error = << >>
    /\ Len(trace.transaction_hash) = 1
    /\ trace.value > 0

\* C14: extract_transfers returns, in the order of the traces, one transfer for each
\* trace that is a plain call without error, with a transaction hash and a positive
\* value, carrying that trace's block number, hash, sender, destination and value,
\* and nothing else; an empty trace list gives an empty result.
C14_ExtractTransfers ==
    Returned("extract_transfers") =>
        LET traces == call.args.traces
            result == Unwrap(call.result)
            kept == SelectSeq(traces, PlainValueCall)
        IN /\ Len(result) = Len(kept)
           /\ \A i \in 1..Len(kept) :
                 result[i] = [block_number |-> kept[i].block_number,
                              tx_hash |-> kept[i].transaction_hash[1],
                              from |-> kept[i].from, to |-> kept[i].to,
                              value |-> kept[i].value]
           /\ \A i \in 1..Len(result) : result[i].value > 0
           /\ traces = << >> => result = << >>

\* a list with a zero-value plain call before a plain call with value gave one
\* transfer
C14_Witness ==
    /\ Returned("extract_transfers")
    /\ Len(call.args.traces) = 2
    /\ call.args.traces[1].value = 0
    /\ PlainValueCall([call.args.traces[1] EXCEPT !.value = 5])
    /\ PlainValueCall(call.args.traces[2])
    /\ Len(Unwrap(call.result)) = 1
    /\ Unwrap(call.result)[1].to = call.args.traces[2].to

AllDone == \A i \in 1..Len(tasks) : tasks[i].at = "done"

C15_State ==
    /\ pc \in {"chunk", "write_chunk", "flush_chunk", "done"} => AllDone
    /\ pc \in {"spawn", "join"} =>
          /\ Len(appended) * rpc_parallel = chunk_start
          /\ wbuf = << >>
          /\ NewRows = Flatten(appended)
          /\ Len(launched) = chunk_start + Len(tasks)
          /\ \A i \in 1..Len(tasks) : tasks[i].entry = input[chunk_start + i]

C15_Step ==
    /\ disk' # disk => (AllDone /\ (tasks' = tasks \/ tasks' = << >>))
    /\ (launched' # launched /\ run' = run) =>
          /\ pc = "spawn"
          /\ launched' = Append(launched, input[chunk_start + Len(tasks) + 1].slot)
          /\ Len(tasks) < rpc_parallel
    /\ (pc = "join" /\ pc' \notin {"join", "crashed"}) => AllDone

\* C15: while the tasks of a chunk are launched or awaited, every earlier chunk is
\* finished: its rows are appended and flushed, nothing is buffered, and the only
\* tasks are those of the current chunk; main leaves the join only when every task
\* of the chunk has completed; and the output file changes only in a step of main
\* taken while no task is running.
C15_ChunkBarrier == [](C15_State) /\ [][C15_Step]_vars

\* a task of a second chunk is running after the rows of the first chunk were
\* appended and flushed
C15_Witness ==
    /\ pc = "join"
    /\ chunk_start > 0
    /\ tasks[1].at # "done"
    /\ Len(appended) = 1 /\ appended[1] # << >>
    /\ NewRows = appended[1]

\* the tasks that were launched and have not completed
InFlight == {i \in 1..Len(tasks) : tasks[i].at # "done"}

\* C16: at most rpc_parallel tasks exist at any time, hence at most rpc_parallel
\* are launched and not completed, and all of them are items of one chunk: the
\* chunk of rpc_parallel consecutive queue items that starts after chunk_start.
C16_BoundedConcurrency ==
    /\ Cardinality(InFlight) <= rpc_parallel
    /\ Len(tasks) <= rpc_parallel
    /\ InFlight # {} =>
          /\ chunk_start % rpc_parallel = 0
          /\ \A i \in InFlight :
                /\ chunk_start + i <= Len(input)
                /\ tasks[i].entry = input[chunk_start + i]
                /\ (chunk_start + i - 1) \div rpc_parallel = chunk_start \div rpc_parallel

\* with more queue items than the parallelism, as many tasks as the parallelism
\* allows are in flight
C16_Witness ==
    /\ pc = "join"
    /\ Len(input) > rpc_parallel
    /\ rpc_parallel = MaxPar
    /\ Cardinality(InFlight) = rpc_parallel

C17_State ==
    /\ Replayed =>
          /\ IsPrefix(Rows(startup), Rows(disk))
          /\ processed_entries = Map(DeserializeOutput, Rows(startup))
    /\ pc \in {"read_output", "read_input", "open", "replay", "replay_flush"} =>
          (launched = << >> /\ appended = << >> /\ tasks = << >>)
    /\ (pc = "chunk" /\ chunk_start = 0) => (Rows(disk) = Rows(startup) /\ wbuf = << >>)

C17_Step ==
    /\ (Replayed /\ run' = run) => IsPrefix(Rows(startup), Rows(disk'))
    /\ ((launched' # launched \/ appended' # appended) /\ run' = run) =>
          (IsPrefix(Rows(startup), Rows(disk)) /\ Len(wbuf) <= Len(processed))

\* C17: from the end of the replay step on, however the run goes on and ends, the
\* rows of the startup output file are the first rows of the output file, unchanged
\* and in their order; when the replay step ends the file holds exactly these rows
\* and nothing is buffered; no task is launched and no row is appended before that.
C17_ReplayPrefix == [](C17_State) /\ [][C17_Step]_vars

\* a run that started from two rows listed in descending slot order has replayed
\* them and is about to launch its first task
C17_Witness ==
    /\ pc = "spawn"
    /\ launched = << >>
    /\ SlotSeq(Rows(startup)) = << 102, 100 >>
    /\ Rows(disk) = Rows(startup)

NoDuplicates(seq) == \A i, j \in 1..Len(seq) : seq[i] = seq[j] => i = j

\* the slots of the rows of a file that deserialize, in the order of the rows
FileSlots(f) == SlotSeq(SelectSeq(Rows(f), LAMBDA row : ~IsBadRow(row)))

\* C18 (as claimed): in a run that starts from an output file without duplicate
\* slots, whatever the input file lists, no slot has two tasks launched for it, the
\* output file never holds two rows with the same slot, and the processed-slot set
\* stays the set of the slots of the startup file while the chunks are processed.
C18_OncePerSlot ==
    NoDuplicates(FileSlots(startup)) =>
        /\ NoDuplicates(launched)
        /\ NoDuplicates(FileSlots(disk))
        /\ Filtered => processed_set = StartupSlots

\* the slots of the tasks that did not return Ok: an error result or a panic
FailedSlots(ts) ==
    Map(LAMBDA t : t.entry.slot, SelectSeq(ts, LAMBDA t : t.res.kind # "Ok"))

C20_Step ==
    (pc = "join" /\ pc' \notin {"join", "crashed"}) =>
        /\ pc' = "write_chunk"
        /\ warnings' = warnings \o FailedSlots(tasks)
        /\ Ascending(processed')
        /\ SameRows(processed', OkRows(tasks))

\* C20 (as claimed): when the tasks of a chunk have completed, whatever way each of
\* them ended (Ok, an error result, or a panic that the join reports as a
\* JoinError), main logs every failed item, keeps the rows of the others and goes
\* on to write and flush them and to take the next chunk.
C20_PanicIsolated == [][C20_Step]_vars

\* the slots of the input rows that deserialize
InputSlots == SlotsOf(SelectSeq(input_file, LAMBDA row : ~IsBadRow(row)))

RowSlots(f) == {FileSlots(f)[i] : i \in 1..Len(FileSlots(f))}

\* a task for the slot has returned Ok
Succeeded(slot) ==
    \E i \in 1..Len(tasks) : tasks[i].entry.slot = slot /\ tasks[i].res.kind = "Ok"

\* the output file holds a row for every input slot
Complete == InputSlots \subseteq RowSlots(disk)

C19_State ==
    /\ Filtered => IsPrefix(launched, SlotSeq(input))
    /\ pc = "done" =>
          /\ launched = SlotSeq(input)
          /\ \A i \in 1..Len(warnings) : warnings[i] \notin RowSlots(disk)
    /\ Filtered => \A s \in InputSlots : s \notin RowSlots(startup) => s \in SlotsOf(input)

C19_Step ==
    /\ (Filtered /\ run' = run /\ ~Running') =>
          (pc' = "done" /\ launched' = SlotSeq(input'))
    /\ run' = run + 1 => startup' = disk

\* C19 (as claimed), in the runs of SpecRetry: a run launches one task for each item
\* of its queue, in order, and ends only when the queue is exhausted; at the end of
\* a run a slot whose task failed has no row in the output file, and the next run,
\* which starts from that file, has in its queue every input slot without a row; and
\* if every input slot has a row at the start or has a task that returns Ok in some
\* run, then eventually the output file holds a row for every input slot.
C19_Retry ==
    /\ [](C19_State)
    /\ [][C19_Step]_vars
    /\ (run = 1 /\ pc = "read_output") ~> ~Running
    /\ (\A s \in Slots : (s \in InputSlots => (s \in RowSlots(startup) \/ <>Succeeded(s))))
          => <>Complete

====
